---- MODULE Spec2Model ----
(***************************************************************************)
(* docu-chat: the conversational retrieval-augmented query engine.         *)
(*                                                                         *)
(* The model follows one chat request from the HTTP handler (routers/      *)
(* chat.py for POST /chat/, routers/chat_common.py for POST /agent/chat)   *)
(* through the strategy's query() (services/rag_service.py, services/      *)
(* agent_rag_service.py) to the persisted conversation turn and the        *)
(* response.  The language model, the vector index and the database are    *)
(* external: every call to one of them is a step of its own, whose result  *)
(* is drawn from a small set and which may raise.                          *)
(***************************************************************************)
EXTENDS Integers, Sequences, FiniteSets, TLC

(***************************************************************************)
(* Bounds of the model.                                                    *)
(***************************************************************************)
\* chat requests received in one behaviour
MaxRequests == 2
\* turns stored before a stand-alone call of _get_chat_history
MaxTurns == 3
\* invocations of retrieve_documents the model makes in one agent run
MaxToolCalls == 2

(***************************************************************************)
(* Values.                                                                 *)
(***************************************************************************)
\* Optional[int] document_id = None (schemas/chat.py); the ids of documents
\* are positive
NoDocument == -1
\* Optional[str] session_id = None (schemas/chat.py)
NoSession == "<None>"

\* the request handlers that can be in flight together
Requests == {1, 2}
Endpoints == {"chat", "agent"}
\* ChatRequest.question has min_length=1
Questions == {"q1"}
GivenDocuments == {NoDocument, 1}
GivenSessions == {NoSession, "s1"}
\* what the generation model may return as its final text
Answers == {"", "a1"}
\* what the generation model may return as the standalone question
Reformulations == {"", "rq"}
\* the free-text query the model passes to retrieve_documents
ToolQueries == {"tq"}

\* Python truthiness of an Optional[str]
Truthy(s) == s # NoSession /\ s # ""

\* str(uuid.uuid4()): the n-th identifier generated in this process
Uuid(n) == "u" \o ToString(n)

Min(a, b) == IF a < b THEN a ELSE b
Abs(a) == IF a < 0 THEN -a ELSE a
Range(s) == {s[i] : i \in DOMAIN s}
Reverse(s) == [i \in 1..Len(s) |-> s[Len(s) + 1 - i]]

(***************************************************************************)
(* The vector index: chunks with their metadata and a (one-dimensional)    *)
(* embedding; similarity is the negated distance to the query's embedding. *)
(***************************************************************************)
Chunk(d, i, v) == [document_id |-> d, chunk_index |-> i, vec |-> v]

\* a chunk as the index stores it, under the id of its vector
Vector(id, c) ==
    [id |-> id, document_id |-> c.document_id, chunk_index |-> c.chunk_index,
     vec |-> c.vec]

\* the index contents a process may start with
IndexChoices ==
    { {},
      {Vector("v1", Chunk(1, 0, 1)), Vector("v2", Chunk(2, 0, 3)),
       Vector("v3", Chunk(2, 1, 4))} }

\* embeddings.embed_query
Embed(q) ==
    CASE q = "q1" -> 3
      [] q = "rq" -> 2
      [] q = "tq" -> 4
      [] OTHER    -> 0

Similarity(c, q) == 0 - Abs(c.vec - Embed(q))

\* the chunks a search may return: all of them, or those the filter admits
Eligible(idx, filter) ==
    IF filter = {} THEN idx ELSE {c \in idx : c.document_id \in filter}

\* every ranking of S by descending similarity (ties in any order)
Ranked(S, q) ==
    {p \in [1..Cardinality(S) -> S] :
        /\ \A i, j \in DOMAIN p : i # j => p[i] # p[j]
        /\ \A i, j \in DOMAIN p : i < j => Similarity(p[i], q) >= Similarity(p[j], q)}

\* vector_store.similarity_search(query, k=.., filter=..): the possible results
SimilaritySearch(idx, q, kwargs) ==
    {SubSeq(p, 1, Min(kwargs.k, Len(p))) : p \in Ranked(Eligible(idx, kwargs.filter), q)}

(***************************************************************************)
(* Session history.                                                        *)
(***************************************************************************)
\* messages: artifact is the attribute only a ToolMessage carries
HumanMessage(t) == [role |-> "human", content |-> t, artifact |-> <<>>]
AIMessage(t) == [role |-> "ai", content |-> t, artifact |-> <<>>]
ToolMessage(docs) == [role |-> "tool", content |-> "context", artifact |-> docs]

\* the query as it would be without its filter
FilterSessionAll(table, session_id) == DOMAIN table

\* .filter(ChatHistory.session_id == session_id)
FilterSession(table, session_id) ==
    {i \in DOMAIN table : table[i].session_id = session_id}

RECURSIVE OrderByCreatedAtDesc(_, _)
\* .order_by(ChatHistory.created_at.desc()): rows with equal created_at come
\* in an order the database chooses
OrderByCreatedAtDesc(table, rows) ==
    IF rows = {} THEN {<<>>}
    ELSE UNION {{<<i>> \o p : p \in OrderByCreatedAtDesc(table, rows \ {i})} :
                  i \in {i \in rows :
                            \A j \in rows : table[i].created_at >= table[j].created_at}}

\* .limit(limit).all()
Limit(p, limit) == SubSeq(p, 1, Min(limit, Len(p)))

\* the query as it would be without history_records.reverse()
HistoryRecordsNewestFirst(table, session_id, limit) ==
    {Limit(p, limit) :
        p \in OrderByCreatedAtDesc(table, FilterSession(table, session_id))}

\* history_records after history_records.reverse(): row numbers, oldest first
HistoryRecords(table, session_id, limit) ==
    {Reverse(Limit(p, limit)) :
        p \in OrderByCreatedAtDesc(table, FilterSession(table, session_id))}

\* AgentRAGService._get_chat_history: the same query, written again
AgentHistoryRecords(table, session_id, limit) ==
    {Reverse(Limit(p, limit)) :
        p \in OrderByCreatedAtDesc(table, FilterSession(table, session_id))}

\* the HumanMessage/AIMessage pair appended for each record
ToMessages(table, records) ==
    [i \in 1..(2 * Len(records)) |->
        IF i % 2 = 1 THEN HumanMessage(table[records[(i + 1) \div 2]].question)
                     ELSE AIMessage(table[records[i \div 2]].answer)]

(***************************************************************************)
(* State.                                                                  *)
(***************************************************************************)
VARIABLES
    index,          \* the chunks stored in the vector index
    chat_history,   \* the chat_history table, in insertion order
    now,            \* the database clock behind func.now()
    uuids,          \* identifiers generated by uuid.uuid4() so far
    received,       \* requests received so far
    filter,         \* AgentRAGService._current_document_id of each instance
    req,            \* the request handlers in flight
    lookup,         \* the last stand-alone call of _get_chat_history
    documents,      \* the documents table: id -> committed row
    files,          \* the paths of the files in the upload directory
    up,             \* the upload handler
    ingests,        \* the stand-alone calls of process_pdf so far
    clients,        \* the module globals _pinecone_client, _embeddings, _llm
    getter,         \* the threads calling the getters of the clients
    split           \* the last call of text_splitter.split_documents

vars == <<index, chat_history, now, uuids, received, filter, req, lookup,
          documents, files, up, ingests, clients, getter, split>>

NoResponse == [status |-> 0, question |-> "", answer |-> "", session_id |-> "",
               sources |-> <<>>, detail |-> ""]

Idle == [pc |-> "idle", endpoint |-> "chat", question |-> "", given |-> NoSession,
         session_id |-> "", document_id |-> NoDocument, service |-> 0,
         records |-> <<>>, history |-> <<>>, reformulated |-> FALSE, output |-> "",
         search_query |-> "", calls |-> <<>>, answer |-> "", sources |-> <<>>,
         used_retrieval |-> FALSE, failed_at |-> "", rows |-> 0, saved |-> 0,
         stages |-> <<>>, response |-> NoResponse]

NoLookup == [service |-> "", session_id |-> "", limit |-> 0, records |-> <<>>,
             messages |-> <<>>]

\* file.filename of an upload that names no file
NoFilename == "<None>"
\* no call of process_pdf has returned
NoChunks == -1

NoRecord == [filename |-> "", file_path |-> "", status |-> "", chunks_count |-> 0]

NoUploadResponse == [status |-> 0, detail |-> "", document |-> NoRecord]

Waiting == [pc |-> "idle", filename |-> NoFilename, pdf |-> <<>>, file_path |-> "",
            id |-> 0, chunks |-> NoChunks, failed_at |-> "",
            status_lost |-> FALSE, remove_failed |-> FALSE, committed |-> <<>>,
            rows |-> {}, disk |-> {}, stored |-> {},
            response |-> NoUploadResponse]

\* the three shared clients and the threads of the pool that runs the
\* dependencies
Clients == {"pinecone", "embeddings", "llm"}
Threads == {1, 2}
\* None
NoClient == 0

NotCalling == [pc |-> "idle", client |-> "pinecone", made |-> NoClient,
               result |-> NoClient]

\* a module global: the handle it holds, and what the process has seen of
\* the client: how many were constructed and which handles callers received
NotConstructed == [handle |-> NoClient, constructed |-> 0, given |-> {}]

\* split_documents has not been called
NoSplit == [pages |-> <<>>, chunks |-> <<>>]

\* the state of everything but the chat handlers after start-up
Unused ==
    /\ documents = <<>>
    /\ files = {}
    /\ up = Waiting
    /\ ingests = <<>>
    /\ clients = [c \in Clients |-> NotConstructed]
    /\ getter = [t \in Threads |-> NotCalling]
    /\ split = NoSplit

Init ==
    /\ index \in IndexChoices
    /\ chat_history = <<>>
    /\ now = 0
    /\ uuids = 0
    /\ received = 0
    /\ filter = [i \in Requests |-> NoDocument]
    /\ req = [r \in Requests |-> Idle]
    /\ lookup = NoLookup
    /\ Unused

(***************************************************************************)
(* Program constants.                                                      *)
(***************************************************************************)
\* _get_chat_history(session_id, limit=10)
HistoryLimit == 10
\* search_kwargs = {"k": 5} of the fixed pipeline
ClassicK == 5
\* search_kwargs = {"k": 4} of retrieve_documents
AgentK == 4
\* status.HTTP_500_INTERNAL_SERVER_ERROR
InternalServerError == 500
\* the default status code of a returned ChatResponse
Ok == 200

(***************************************************************************)
(* The handlers: POST /chat/ (chat) and POST /agent/chat                   *)
(* (process_chat_request).                                                 *)
(***************************************************************************)
\* the handler as it would be if it opened a new session for every request
ResolveSessionFresh(given, n) == Uuid(n + 1)

\* session_id = request.session_id or str(uuid.uuid4())
ResolveSession(given, n) == IF Truthy(given) THEN given ELSE Uuid(n + 1)

\* the factory as it would be if it kept one service for all requests
SharedService(r) == 1

\* get_rag_service / get_agent_rag_service: FastAPI calls the factory for
\* every request, so each request works on a service instance of its own
ServiceOf(r) == r

Receive(r, endpoint, question, given, document_id) ==
    /\ req[r].pc \in {"idle", "done"}
    /\ received < MaxRequests
    /\ received' = received + 1
    /\ uuids' = IF Truthy(given) THEN uuids ELSE uuids + 1
    /\ req' = [req EXCEPT ![r] =
                 [Idle EXCEPT !.pc = IF endpoint = "chat" THEN "history" ELSE "set_filter",
                              !.endpoint = endpoint,
                              !.question = question,
                              !.given = given,
                              !.session_id = ResolveSession(given, uuids),
                              !.document_id = document_id,
                              !.rows = Len(chat_history),
                              !.service = ServiceOf(r)]]
    \* AgentRAGService.__init__: self._current_document_id = None
    /\ filter' = IF endpoint = "agent"
                 THEN [filter EXCEPT ![ServiceOf(r)] = NoDocument]
                 ELSE filter
    /\ UNCHANGED <<index, chat_history, now, lookup,
                 documents, files, up, ingests, clients, getter, split>>

\* return ChatResponse(...)
ChatResponse(q) ==
    [status |-> Ok, question |-> q.question, answer |-> q.answer,
     session_id |-> q.session_id, sources |-> q.sources, detail |-> ""]

\* the handler as it would be if it answered with what query() had so far
QueryFailedPartial(q) == ChatResponse(q)

\* except Exception: raise HTTPException(500, "Failed to process question: ...")
QueryFailedResponse(q) ==
    [NoResponse EXCEPT !.status = InternalServerError,
                       !.detail = "Failed to process question"]

(***************************************************************************)
(* _get_chat_history, the same code in both services.                      *)
(***************************************************************************)
\* RAGService.query always loads the history; AgentRAGService.query loads it
\* if session_id is truthy
GetChatHistory(service, table, session_id, limit) ==
    IF service = "chat" THEN HistoryRecords(table, session_id, limit)
    ELSE IF Truthy(session_id) THEN AgentHistoryRecords(table, session_id, limit)
    ELSE {<<>>}

LoadHistory(r) ==
    /\ req[r].pc = "history"
    /\ \E recs \in GetChatHistory(req[r].endpoint, chat_history,
                                   req[r].session_id, HistoryLimit) :
         req' = [req EXCEPT ![r].records = recs,
                            ![r].history = ToMessages(chat_history, recs),
                            ![r].stages = Append(@, "history"),
                            ![r].pc = IF req[r].endpoint = "chat"
                                      THEN "reformulate" ELSE "decide"]
    /\ UNCHANGED <<index, chat_history, now, uuids, received, filter, lookup,
                 documents, files, up, ingests, clients, getter, split>>

(***************************************************************************)
(* RAGService.query: the fixed pipeline.                                   *)
(***************************************************************************)
\* search_kwargs of the retriever
ClassicSearchKwargs(document_id) ==
    [k |-> ClassicK,
     filter |-> IF document_id # NoDocument THEN {document_id} ELSE {}]

\* the branch as it would be if every question went through the model
InputIsQueryNever(history) == FALSE

\* create_history_aware_retriever, the condition of its branch: with no
\* chat_history the input goes to the retriever as it is
InputIsQuery(history) == history = <<>>

\* the other branch: prompt | llm | StrOutputParser() | retriever
Reformulate(r) ==
    /\ req[r].pc = "reformulate"
    /\ IF InputIsQuery(req[r].history)
       THEN req' = [req EXCEPT ![r].search_query = req[r].question,
                               ![r].stages = Append(@, "reformulation"),
                               ![r].pc = "retrieve"]
       ELSE \E output \in Reformulations \cup {req[r].question} :
              req' = [req EXCEPT ![r].reformulated = TRUE,
                                 ![r].output = output,
                                 ![r].search_query = output,
                                 ![r].stages = Append(@, "reformulation"),
                                 ![r].pc = "retrieve"]
    /\ UNCHANGED <<index, chat_history, now, uuids, received, filter, lookup,
                 documents, files, up, ingests, clients, getter, split>>

\* {"content": doc.page_content, "metadata": doc.metadata}
Source(c) == [document_id |-> c.document_id, chunk_index |-> c.chunk_index]

Sources(docs) == [i \in DOMAIN docs |-> Source(docs[i])]

\* the pipeline as it would be if it searched the index once for the
\* context and once more for the sources
RetrieveTwice(r) ==
    /\ req[r].pc = "retrieve"
    /\ LET kwargs == ClassicSearchKwargs(req[r].document_id) IN
       \E docs \in SimilaritySearch(index, req[r].search_query, kwargs) :
         req' = [req EXCEPT
                   ![r].calls = @ \o <<[filter |-> kwargs.filter,
                                        query |-> req[r].search_query,
                                        docs |-> docs],
                                       [filter |-> kwargs.filter,
                                        query |-> req[r].search_query,
                                        docs |-> docs]>>,
                   ![r].stages = @ \o <<"retrieval", "retrieval">>,
                   ![r].pc = "synthesize"]
    /\ UNCHANGED <<index, chat_history, now, uuids, received, filter, lookup,
                 documents, files, up, ingests, clients, getter, split>>

\* the retriever: one similarity search with the query and the filter
Retrieve(r) ==
    /\ req[r].pc = "retrieve"
    /\ LET kwargs == ClassicSearchKwargs(req[r].document_id) IN
       \E docs \in SimilaritySearch(index, req[r].search_query, kwargs) :
         req' = [req EXCEPT
                   ![r].calls = Append(@, [filter |-> kwargs.filter,
                                           query |-> req[r].search_query,
                                           docs |-> docs]),
                   ![r].stages = Append(@, "retrieval"),
                   ![r].pc = "synthesize"]
    /\ UNCHANGED <<index, chat_history, now, uuids, received, filter, lookup,
                 documents, files, up, ingests, clients, getter, split>>

\* the pipeline as it would be if it answered without the model when the
\* search found nothing
SynthesizeSkipsEmpty(r) ==
    /\ req[r].pc = "synthesize"
    /\ IF req[r].calls[1].docs = <<>>
       THEN req' = [req EXCEPT ![r].answer = "a1",
                               ![r].sources = <<>>,
                               ![r].pc = "returned"]
       ELSE \E a \in Answers :
              req' = [req EXCEPT ![r].answer = a,
                                 ![r].sources = Sources(req[r].calls[1].docs),
                                 ![r].stages = Append(@, "synthesis"),
                                 ![r].pc = "returned"]
    /\ UNCHANGED <<index, chat_history, now, uuids, received, filter, lookup,
                   documents, files, up, ingests, clients, getter, split>>

\* create_stuff_documents_chain: one call of the model with the context
Synthesize(r) ==
    /\ req[r].pc = "synthesize"
    /\ \E a \in Answers :
         req' = [req EXCEPT ![r].answer = a,
                            ![r].sources = Sources(req[r].calls[1].docs),
                            ![r].stages = Append(@, "synthesis"),
                            ![r].pc = "returned"]
    /\ UNCHANGED <<index, chat_history, now, uuids, received, filter, lookup,
                 documents, files, up, ingests, clients, getter, split>>

(***************************************************************************)
(* AgentRAGService.query: the model-directed strategy.                     *)
(***************************************************************************)
\* self._current_document_id = document_id
SetFilter(r) ==
    /\ req[r].pc = "set_filter"
    /\ filter' = [filter EXCEPT ![req[r].service] = req[r].document_id]
    /\ req' = [req EXCEPT ![r].pc = "history"]
    /\ UNCHANGED <<index, chat_history, now, uuids, received, lookup,
                 documents, files, up, ingests, clients, getter, split>>

\* the model asks for retrieve_documents(query)
CallTool(r) ==
    /\ req[r].pc = "decide"
    /\ Len(req[r].calls) < MaxToolCalls
    /\ \E q \in ToolQueries :
         req' = [req EXCEPT ![r].search_query = q, ![r].pc = "tool"]
    /\ UNCHANGED <<index, chat_history, now, uuids, received, filter, lookup,
                 documents, files, up, ingests, clients, getter, split>>

\* retrieve_documents as it would be without the document filter
ToolSearchKwargsUnfiltered(current_document_id) == [k |-> AgentK, filter |-> {}]

\* search_kwargs of retrieve_documents, from the service's current filter
ToolSearchKwargs(current_document_id) ==
    [k |-> AgentK,
     filter |-> IF current_document_id # NoDocument THEN {current_document_id} ELSE {}]

\* the graph as it would be if a run of the tool were not counted
RetrieveDocumentsUncounted(r) ==
    /\ req[r].pc = "tool"
    /\ req' = [req EXCEPT ![r].pc = "decide"]
    /\ UNCHANGED <<index, chat_history, now, uuids, received, filter, lookup,
                 documents, files, up, ingests, clients, getter, split>>

\* retrieve_documents runs
RetrieveDocuments(r) ==
    /\ req[r].pc = "tool"
    /\ LET kwargs == ToolSearchKwargs(filter[req[r].service]) IN
       \E docs \in SimilaritySearch(index, req[r].search_query, kwargs) :
         req' = [req EXCEPT
                   ![r].calls = Append(@, [filter |-> kwargs.filter,
                                           query |-> req[r].search_query,
                                           docs |-> docs]),
                   ![r].pc = "decide"]
    /\ UNCHANGED <<index, chat_history, now, uuids, received, filter, lookup,
                 documents, files, up, ingests, clients, getter, split>>

\* the handler as it would be if it put the question before the history
InputMessagesQuestionFirst(q) == <<HumanMessage(q.question)>> \o q.history

\* messages = chat_history + [HumanMessage(content=question)]
InputMessages(q) == q.history \o <<HumanMessage(q.question)>>

\* result["messages"]: the input messages, then an AIMessage carrying the tool
\* call and the ToolMessage answering it for every invocation, then the
\* final AIMessage
ResultMessages(q, a) ==
    InputMessages(q)
    \o [i \in 1..(2 * Len(q.calls)) |->
          IF i % 2 = 1 THEN AIMessage("") ELSE ToolMessage(q.calls[i \div 2].docs)]
    \o <<AIMessage(a)>>

\* the sources of the first message with a non-empty artifact, if any message
\* has the attribute tool_calls
ExtractSources(messages) ==
    LET tool_calls == {i \in DOMAIN messages : messages[i].role = "ai"}
        artifacts == {i \in DOMAIN messages :
                        messages[i].role = "tool" /\ messages[i].artifact # <<>>}
    IN IF tool_calls # {} /\ artifacts # {}
       THEN Sources(messages[CHOOSE i \in artifacts : \A j \in artifacts : i <= j].artifact)
       ELSE <<>>

\* the model gives its final answer; query() returns (finally: reset the filter)
Answer(r) ==
    /\ req[r].pc = "decide"
    /\ \E a \in Answers :
         LET sources == ExtractSources(ResultMessages(req[r], a)) IN
         req' = [req EXCEPT ![r].answer = a,
                            ![r].sources = sources,
                            ![r].used_retrieval = (Len(sources) > 0),
                            ![r].pc = "returned"]
    /\ filter' = [filter EXCEPT ![req[r].service] = NoDocument]
    /\ UNCHANGED <<index, chat_history, now, uuids, received, lookup,
                 documents, files, up, ingests, clients, getter, split>>

(***************************************************************************)
(* A call made by query() raises.                                          *)
(***************************************************************************)
\* the places of query() where a call to the database, the model or the
\* index is under way
Raising(q) ==
    \/ q.pc \in {"history", "retrieve", "synthesize", "decide", "tool"}
    \/ q.pc = "reformulate" /\ ~InputIsQuery(q.history)

\* query() raises; the handler answers 500 and saves nothing
QueryFails(r) ==
    /\ Raising(req[r])
    /\ req' = [req EXCEPT ![r].failed_at = req[r].pc,
                          ![r].response = QueryFailedResponse(req[r]),
                          ![r].pc = "done"]
    /\ filter' = IF req[r].endpoint = "agent"
                 THEN [filter EXCEPT ![req[r].service] = NoDocument]
                 ELSE filter
    /\ UNCHANGED <<index, chat_history, now, uuids, received, lookup,
                 documents, files, up, ingests, clients, getter, split>>

(***************************************************************************)
(* Saving the turn and answering.                                          *)
(***************************************************************************)
\* the handler as it would be if it stored the query sent to the index and
\* counted no sources
TurnOfSearchQuery(q, id, created_at) ==
    [id |-> id, document_id |-> q.document_id, session_id |-> q.session_id,
     question |-> q.search_query, answer |-> q.answer,
     sources_count |-> 0, created_at |-> created_at]

\* ChatHistory(...), stamped by the database with id and created_at
Turn(q, id, created_at) ==
    [id |-> id, document_id |-> q.document_id, session_id |-> q.session_id,
     question |-> q.question, answer |-> q.answer,
     sources_count |-> Len(q.sources), created_at |-> created_at]

\* the handler as it would be if it wrote the turn at the place after the
\* rows it saw when the request came in
SaveHistoryAtLoaded(r) ==
    /\ req[r].pc = "returned"
    /\ \E t \in {now, now + 1} :
         /\ now' = t
         /\ chat_history' =
              IF Len(chat_history) > req[r].rows
              THEN [chat_history EXCEPT ![req[r].rows + 1] =
                      Turn(req[r], req[r].rows + 1, t)]
              ELSE Append(chat_history, Turn(req[r], req[r].rows + 1, t))
    /\ req' = [req EXCEPT ![r].saved = req[r].rows + 1,
                          ![r].response = ChatResponse(req[r]),
                          ![r].pc = "done"]
    /\ UNCHANGED <<index, uuids, received, filter, lookup,
                   documents, files, up, ingests, clients, getter, split>>

\* db.add(chat_history); db.commit()
SaveHistory(r) ==
    /\ req[r].pc = "returned"
    /\ \E t \in {now, now + 1} :
         /\ now' = t
         /\ chat_history' =
              Append(chat_history, Turn(req[r], Len(chat_history) + 1, t))
    /\ req' = [req EXCEPT ![r].saved = Len(chat_history) + 1,
                          ![r].response = ChatResponse(req[r]),
                          ![r].pc = "done"]
    /\ UNCHANGED <<index, uuids, received, filter, lookup,
                 documents, files, up, ingests, clients, getter, split>>

\* the handler as it would be if the error of the commit escaped it
SaveFailedEscapes(q) == [NoResponse EXCEPT !.status = InternalServerError]

\* except SQLAlchemyError: db.rollback(), and the request goes on
SaveFailedResponse(q) == ChatResponse(q)

SaveHistoryFails(r) ==
    /\ req[r].pc = "returned"
    /\ req' = [req EXCEPT ![r].failed_at = "save",
                          ![r].response = SaveFailedResponse(req[r]),
                          ![r].pc = "done"]
    /\ UNCHANGED <<index, chat_history, now, uuids, received, filter, lookup,
                 documents, files, up, ingests, clients, getter, split>>

(***************************************************************************)
(* Specifications.                                                         *)
(***************************************************************************)
\* the handlers are coroutines that never await: one request at a time
Serial == {1}

Next ==
    \E r \in Serial :
        \/ \E e \in Endpoints, q \in Questions, g \in GivenSessions,
              d \in GivenDocuments : Receive(r, e, q, g, d)
        \/ LoadHistory(r)
        \/ Reformulate(r)
        \/ Retrieve(r)
        \/ Synthesize(r)
        \/ SetFilter(r)
        \/ CallTool(r)
        \/ RetrieveDocuments(r)
        \/ Answer(r)
        \/ QueryFails(r)
        \/ SaveHistory(r)
        \/ SaveHistoryFails(r)

Spec == Init /\ [][Next]_vars

\* two requests to POST /agent/chat handled at the same time, their steps
\* interleaved in every way; each request opens a session of its own
NextConcurrent ==
    \E r \in Requests :
        \/ \E q \in Questions, d \in GivenDocuments :
              Receive(r, "agent", q, NoSession, d)
        \/ SetFilter(r)
        \/ LoadHistory(r)
        \/ CallTool(r)
        \/ RetrieveDocuments(r)
        \/ Answer(r)
        \/ QueryFails(r)
        \/ SaveHistory(r)
        \/ SaveHistoryFails(r)

SpecConcurrent == Init /\ [][NextConcurrent]_vars

\* the session ids a request can carry: none, the empty string, a session
CarriedSessions == GivenSessions \cup {""}

\* requests handled one at a time, carrying any of the session ids
NextSessions ==
    \E r \in Serial :
        \/ \E e \in Endpoints, q \in Questions, g \in CarriedSessions :
              Receive(r, e, q, g, NoDocument)
        \/ LoadHistory(r)
        \/ Reformulate(r)
        \/ Retrieve(r)
        \/ Synthesize(r)
        \/ SetFilter(r)
        \/ CallTool(r)
        \/ RetrieveDocuments(r)
        \/ Answer(r)
        \/ QueryFails(r)
        \/ SaveHistory(r)
        \/ SaveHistoryFails(r)

SpecSessions == Init /\ [][NextSessions]_vars

(***************************************************************************)
(* _get_chat_history on its own: the table holds any turns earlier         *)
(* requests may have stored, and the function is called with any session   *)
(* and limit.                                                              *)
(***************************************************************************)
HistorySessions == {"s1", "u1"}
\* a session that has no turn
LookupSessions == HistorySessions \cup {"u2"}
Limits == {0, 1, 2, HistoryLimit}

RECURSIVE Stamp(_, _)
\* created_at of the i-th turn, the clock advancing by ticks[j] before turn j
Stamp(ticks, i) == IF i = 0 THEN 0 ELSE Stamp(ticks, i - 1) + ticks[i]

StoredTurn(i, session_id, created_at) ==
    [id |-> i, document_id |-> NoDocument, session_id |-> session_id,
     question |-> "q" \o ToString(i), answer |-> "a" \o ToString(i),
     sources_count |-> 0, created_at |-> created_at]

Tables ==
    UNION {{[i \in 1..n |-> StoredTurn(i, sessions[i], Stamp(ticks, i))] :
              sessions \in [1..n -> HistorySessions], ticks \in [1..n -> {0, 1}]} :
           n \in 0..MaxTurns}

InitHistory ==
    /\ index = {}
    /\ chat_history \in Tables
    /\ now = (IF chat_history = <<>> THEN 0
              ELSE chat_history[Len(chat_history)].created_at)
    /\ uuids = 0
    /\ received = 0
    /\ filter = [i \in Requests |-> NoDocument]
    /\ req = [r \in Requests |-> Idle]
    /\ lookup = NoLookup
    /\ Unused

CallGetChatHistory(service, session_id, limit) ==
    /\ \E recs \in GetChatHistory(service, chat_history, session_id, limit) :
         lookup' = [service |-> service, session_id |-> session_id, limit |-> limit,
                    records |-> recs, messages |-> ToMessages(chat_history, recs)]
    /\ UNCHANGED <<index, chat_history, now, uuids, received, filter, req,
                 documents, files, up, ingests, clients, getter, split>>

NextHistory ==
    \E service \in Endpoints, session_id \in LookupSessions, limit \in Limits :
        CallGetChatHistory(service, session_id, limit)

SpecHistory == InitHistory /\ [][NextHistory]_vars

(***************************************************************************)
(* Properties.                                                             *)
(***************************************************************************)
\* the request has left query() with an error
QueryFailed(q) == q.pc = "done" /\ q.failed_at \notin {"", "save"}

\* the fixed pipeline has chosen its search query
PastReformulate(q) ==
    /\ q.endpoint = "chat"
    /\ \/ q.pc \in {"retrieve", "synthesize", "returned"}
       \/ q.pc = "done" /\ q.failed_at \notin {"history", "reformulate"}

\* C1: a query with document_id = D and no other query in flight searches the
\* index only with the filter document_id = D, in the fixed pipeline and in
\* every invocation of retrieve_documents, so every chunk found and every
\* source returned belongs to D
C1_DocumentIsolation ==
    \A r \in Requests :
        req[r].document_id # NoDocument =>
            /\ \A i \in DOMAIN req[r].calls :
                 /\ req[r].calls[i].filter = {req[r].document_id}
                 /\ \A j \in DOMAIN req[r].calls[i].docs :
                      req[r].calls[i].docs[j].document_id = req[r].document_id
            /\ \A i \in DOMAIN req[r].sources :
                 req[r].sources[i].document_id = req[r].document_id
            /\ \A i \in DOMAIN req[r].response.sources :
                 req[r].response.sources[i].document_id = req[r].document_id

\* an agent request on document 1 has searched twice and answered with
\* sources, while a chunk of another document is closer to the query
C1_Witness ==
    \E r \in Requests :
        /\ req[r].endpoint = "agent"
        /\ req[r].document_id = 1
        /\ req[r].response.status = Ok
        /\ Len(req[r].calls) = 2
        /\ req[r].response.sources # <<>>
        /\ \E c \in index :
             /\ c.document_id # 1
             /\ Similarity(c, req[r].calls[1].query)
                  > Similarity(req[r].calls[1].docs[1], req[r].calls[1].query)

\* the filter a request's searches must carry
RequestFilter(q) == IF q.document_id # NoDocument THEN {q.document_id} ELSE {}

\* C2: with two agent requests interleaved in any way, every invocation of
\* retrieve_documents searches with the filter of the request it was made
\* for: never the other request's document, never unfiltered because the
\* other request set or reset its filter
C2_FilterScopedToRequest ==
    \A r \in Requests :
        \A i \in DOMAIN req[r].calls :
            req[r].calls[i].filter = RequestFilter(req[r])

\* both requests are inside the agent run, each has searched, and their
\* filters differ
C2_Witness ==
    /\ req[1].pc = "decide" /\ req[2].pc = "decide"
    /\ req[1].calls # <<>> /\ req[2].calls # <<>>
    /\ req[1].document_id = 1 /\ req[2].document_id = NoDocument

\* C3: the history of session A holds only turns of session A, and no
\* question or answer of another session's turn is among its messages
C3_SessionIsolation ==
    /\ \A k \in DOMAIN lookup.records :
         chat_history[lookup.records[k]].session_id = lookup.session_id
    /\ \A k \in DOMAIN lookup.messages :
         \A i \in DOMAIN chat_history :
            lookup.messages[k].content
                \in {chat_history[i].question, chat_history[i].answer}
              => chat_history[i].session_id = lookup.session_id

\* a history of two turns was read while the table holds another session's turn
C3_Witness ==
    /\ Len(lookup.records) = 2
    /\ \E i \in DOMAIN chat_history : chat_history[i].session_id # lookup.session_id

\* C4: _get_chat_history(session_id, limit=N) returns min(N, turns of the
\* session) turns, none twice; no turn left out is newer than a turn
\* returned; the turns come oldest first, each as its question then its
\* answer; a session without turns yields the empty list
C4_RecentTurnsOldestFirst ==
    LET rows == {i \in DOMAIN chat_history :
                    chat_history[i].session_id = lookup.session_id}
        recs == lookup.records
    IN lookup.service # "" =>
        /\ Len(recs) = Min(lookup.limit, Cardinality(rows))
        /\ Range(recs) \subseteq rows
        /\ \A a, b \in DOMAIN recs : a # b => recs[a] # recs[b]
        /\ \A i \in rows \ Range(recs) : \A k \in DOMAIN recs :
             chat_history[i].created_at <= chat_history[recs[k]].created_at
        /\ \A a, b \in DOMAIN recs :
             a < b => chat_history[recs[a]].created_at
                        <= chat_history[recs[b]].created_at
        /\ Len(lookup.messages) = 2 * Len(recs)
        /\ \A k \in DOMAIN recs :
             /\ lookup.messages[2 * k - 1] = HumanMessage(chat_history[recs[k]].question)
             /\ lookup.messages[2 * k] = AIMessage(chat_history[recs[k]].answer)

\* the limit cut a session of three turns, stored at different times, to two
C4_Witness ==
    /\ lookup.limit = 2
    /\ Len(lookup.records) = 2
    /\ Cardinality({i \in DOMAIN chat_history :
                      chat_history[i].session_id = lookup.session_id}) = 3
    /\ chat_history[lookup.records[1]].created_at
         < chat_history[lookup.records[2]].created_at

\* C5: in the fixed pipeline, with an empty history the search query is the
\* question as asked and the model is not called to reformulate; it is
\* called only with a history
C5_EmptyHistoryKeepsQuestion ==
    \A r \in Requests :
        /\ req[r].endpoint = "chat" /\ req[r].reformulated => req[r].history # <<>>
        /\ PastReformulate(req[r]) /\ req[r].history = <<>> =>
             /\ ~req[r].reformulated
             /\ req[r].search_query = req[r].question
             /\ \A i \in DOMAIN req[r].calls :
                  req[r].calls[i].query = req[r].question

\* the fixed pipeline has searched the index for a session without history
C5_Witness ==
    \E r \in Requests :
        /\ req[r].endpoint = "chat"
        /\ req[r].pc = "synthesize"
        /\ req[r].history = <<>>
        /\ Len(req[r].calls) = 1

\* C6: a query that succeeds has a non-empty answer, and no turn with an
\* empty answer is stored
C6_AnswerNonEmpty ==
    /\ \A r \in Requests :
         req[r].response.status = Ok => req[r].response.answer # ""
    /\ \A i \in DOMAIN chat_history : chat_history[i].answer # ""

\* C7: when saving the turn fails after a successful query, the request
\* still answers 200 with the question, answer, sources and session_id, and
\* nothing is stored
C7_SaveFailureSwallowed ==
    \A r \in Requests :
        req[r].pc = "done" /\ req[r].failed_at = "save" =>
            /\ req[r].response.status = Ok
            /\ req[r].response.detail = ""
            /\ req[r].response.question = req[r].question
            /\ req[r].response.answer = req[r].answer
            /\ req[r].response.sources = req[r].sources
            /\ req[r].response.session_id = req[r].session_id
            /\ req[r].saved = 0
            /\ Len(chat_history) = req[r].rows

\* the commit failed for a request whose query had returned sources
C7_Witness ==
    \E r \in Requests :
        /\ req[r].pc = "done"
        /\ req[r].failed_at = "save"
        /\ req[r].sources # <<>>
        /\ req[r].answer # ""

\* C8: when query() raises, at whatever step, the request answers 500 with
\* "Failed to process question", carries no answer and no sources, and no
\* turn is stored for it
C8_QueryFailureAborts ==
    \A r \in Requests :
        QueryFailed(req[r]) =>
            /\ req[r].response.status = InternalServerError
            /\ req[r].response.detail = "Failed to process question"
            /\ req[r].response.answer = ""
            /\ req[r].response.sources = <<>>
            /\ req[r].saved = 0
            /\ Len(chat_history) = req[r].rows

\* the answer generation failed after a retrieval that found chunks
C8_Witness ==
    \E r \in Requests :
        /\ req[r].pc = "done"
        /\ req[r].failed_at = "synthesize"
        /\ req[r].calls[1].docs # <<>>

\* C9: a failing history lookup does not fail the query: the request goes
\* on with an empty history and answers
C9_HistoryFailureDegrades ==
    \A r \in Requests :
        req[r].pc = "done" /\ req[r].failed_at = "history" =>
            req[r].response.status = Ok

\* C10: in the fixed pipeline, when the model returns an empty standalone
\* question the index is searched with the original question, and never
\* with an empty query
C10_EmptyReformulationFallsBack ==
    \A r \in Requests :
        req[r].endpoint = "chat" =>
            /\ \A i \in DOMAIN req[r].calls : req[r].calls[i].query # ""
            /\ PastReformulate(req[r]) /\ req[r].reformulated /\ req[r].output = ""
                 => req[r].search_query = req[r].question

(***************************************************************************)
(* Claims about the outcome of a request.                                  *)
(***************************************************************************)
\* query() returned its outcome to the handler
Returned(q) == q.pc = "returned" \/ (q.pc = "done" /\ ~QueryFailed(q))

\* C11: in the outcome of the model-directed strategy the flag
\* agent_used_retrieval is true exactly when the model invoked
\* retrieve_documents at least once, whatever number of chunks the
\* invocations returned; with no invocation the sources are empty and the
\* flag is false.
C11_FlagIffToolInvoked ==
    \A r \in Requests :
        (req[r].endpoint = "agent" /\ Returned(req[r])) =>
            /\ req[r].used_retrieval <=> (req[r].calls # <<>>)
            /\ (req[r].calls = <<>>) => (req[r].sources = <<>>)

\* C12 as stated: whenever the request carries a session_id, that exact
\* value is the session of the request.
C12_CarriedSessionUsed ==
    \A r \in Requests :
        (req[r].pc # "idle" /\ req[r].given # NoSession) =>
            req[r].session_id = req[r].given

\* C12: one session_id serves a request throughout. A non-empty session_id
\* carried by the request is the one query() works with, the one stored on
\* the turn and the one returned; a request carrying none, or the empty
\* string, gets one fresh UUID, used for all three.
C12_OneSessionId ==
    \A r \in Requests :
        LET q == req[r] IN
        q.pc # "idle" =>
            /\ Truthy(q.given) => q.session_id = q.given
            /\ ~Truthy(q.given) =>
                 /\ q.session_id = Uuid(uuids)
                 /\ \A i \in 1..q.rows : chat_history[i].session_id # q.session_id
            /\ \A i \in Range(q.records) : chat_history[i].session_id = q.session_id
            /\ q.saved # 0 => chat_history[q.saved].session_id = q.session_id
            /\ q.response.status = Ok => q.response.session_id = q.session_id

\* a request carrying "s1" stored its turn, and the next one, carrying the
\* empty string, works in a session of its own
C12_Witness ==
    /\ Len(chat_history) = 2
    /\ chat_history[1].session_id = "s1"
    /\ req[1].given = ""
    /\ req[1].saved = 2
    /\ chat_history[2].session_id = Uuid(1)
    /\ req[1].response.session_id = Uuid(1)

\* C13 as stated: every successful chat request has appended exactly one
\* turn.
C13_SuccessAppendsTurn ==
    \A r \in Serial :
        (req[r].pc = "done" /\ req[r].response.status = Ok) =>
            /\ req[r].saved # 0
            /\ Len(chat_history) = req[r].rows + 1

\* C13: every successful chat request whose save did not fail appends
\* exactly one turn, created only after query() returned, whose question,
\* answer, session_id and document_id are those of the request and its
\* outcome and whose sources_count is the number of sources returned; a
\* successful request whose save failed appends none; stored turns are
\* never modified or removed; and the turn of each request comes after the
\* turns earlier requests stored, so k saved requests on one session leave
\* exactly k turns there, in request order.
C13_OneTurnPerSavedRequest ==
    /\ [](\A r \in Serial :
            LET q == req[r] IN
            /\ q.pc \notin {"idle", "done"} =>
                 (q.saved = 0 /\ Len(chat_history) = q.rows)
            /\ (q.pc = "done" /\ q.response.status # Ok) =>
                 (q.saved = 0 /\ Len(chat_history) = q.rows)
            /\ (q.pc = "done" /\ q.response.status = Ok /\ q.failed_at = "save") =>
                 (q.saved = 0 /\ Len(chat_history) = q.rows)
            /\ (q.pc = "done" /\ q.response.status = Ok /\ q.failed_at # "save") =>
                 /\ q.saved = q.rows + 1
                 /\ Len(chat_history) = q.rows + 1
                 /\ chat_history[q.saved].question = q.question
                 /\ chat_history[q.saved].answer = q.answer
                 /\ chat_history[q.saved].answer = q.response.answer
                 /\ chat_history[q.saved].session_id = q.session_id
                 /\ chat_history[q.saved].document_id = q.document_id
                 /\ chat_history[q.saved].sources_count = Len(q.response.sources)
                 /\ Cardinality(FilterSession(chat_history, q.session_id))
                      = Cardinality({i \in 1..q.rows :
                                       chat_history[i].session_id = q.session_id}) + 1)
    /\ [][/\ Len(chat_history') \in {Len(chat_history), Len(chat_history) + 1}
          /\ \A i \in DOMAIN chat_history : chat_history'[i] = chat_history[i]]_vars

\* the second request on session "s1" stored the second turn of the session
C13_Witness ==
    /\ Len(chat_history) = 2
    /\ req[1].pc = "done"
    /\ req[1].saved = 2
    /\ req[1].endpoint = "agent"
    /\ req[1].sources # <<>>
    /\ chat_history[1].session_id = "s1"
    /\ chat_history[2].session_id = "s1"

\* the stages of RAGService.query, in the order the chain runs them
Pipeline == <<"history", "reformulation", "retrieval", "synthesis">>

\* C20: a query of the fixed pipeline passes through history load,
\* reformulation, retrieval and synthesis in that order and never goes back
\* to an earlier stage: at every moment the stages it has run are an initial
\* part of that list, the index has been searched at most once, and the
\* answer generation begins only after the one search completed; a query
\* that returns has run every stage, with exactly one search of the index
\* and exactly one answer generation.
C20_FixedPipelineOrder ==
    \A r \in Requests :
        LET q == req[r]
            count(stage) == Cardinality({i \in DOMAIN q.stages : q.stages[i] = stage})
        IN
        q.endpoint = "chat" =>
            /\ Len(q.stages) <= Len(Pipeline)
            /\ q.stages = SubSeq(Pipeline, 1, Len(q.stages))
            /\ Len(q.calls) = count("retrieval")
            /\ q.pc = "synthesize" => (Len(q.calls) = 1 /\ count("synthesis") = 0)
            /\ Returned(q) =>
                 /\ q.stages = Pipeline
                 /\ Len(q.calls) = 1
                 /\ count("synthesis") = 1
                 /\ q.sources = Sources(q.calls[1].docs)

\* a query of the fixed pipeline with earlier turns in its session returned
\* with sources after the model rewrote the question
C20_Witness ==
    /\ req[1].endpoint = "chat"
    /\ req[1].pc = "returned"
    /\ req[1].reformulated
    /\ req[1].history # <<>>
    /\ req[1].sources # <<>>

(***************************************************************************)
(* POST /documents/upload (upload_document) and RAGService.process_pdf.    *)
(***************************************************************************)
\* status_code=status.HTTP_201_CREATED
Created == 201
\* status.HTTP_400_BAD_REQUEST
BadRequest == 400

\* the names an uploaded file may come with
Filenames == {NoFilename, "", "a.pdf", "b.txt", "c.PDF"}
\* the uploaded files: the embeddings of the chunks the splitter makes of each
Pdfs == {<<>>, <<1>>, <<3, 4>>}

\* str.endswith
EndsWith(s, t) == Len(s) >= Len(t) /\ SubSeq(s, Len(s) - Len(t) + 1, Len(s)) = t

\* the validation as it would be if it let every upload through
AnyFilename(filename) == TRUE

\* not (not file.filename or not file.filename.endswith(".pdf"))
ValidFilename(filename) ==
    filename # NoFilename /\ filename # "" /\ EndsWith(filename, ".pdf")

\* os.path.join(upload_dir, f"{unique_id}_{safe_filename}")
FilePath(unique_id, safe_filename) == unique_id \o "_" \o safe_filename

\* Document(filename=..., file_path=..., status=DocumentStatus.PENDING)
Document(filename, file_path) ==
    [filename |-> filename, file_path |-> file_path, status |-> "pending",
     chunks_count |-> 0]

\* the primary key the database gives the next row
NextId(table) ==
    IF DOMAIN table = {} THEN 1
    ELSE (CHOOSE i \in DOMAIN table : \A j \in DOMAIN table : j <= i) + 1

\* db_document.status = DocumentStatus.PROCESSING
Processing(doc) == [doc EXCEPT !.status = "processing"]

\* the handler as it would be if it left chunks_count at its default
CompletedUncounted(doc, chunks) == [doc EXCEPT !.status = "completed"]

\* db_document.chunks_count = chunks; db_document.status = COMPLETED
Completed(doc, chunks) ==
    [doc EXCEPT !.status = "completed", !.chunks_count = chunks]

\* the handler as it would be if it left the status of the record alone
FailedUnmarked(doc) == doc

\* db_document.status = DocumentStatus.FAILED
Failed(doc) == [doc EXCEPT !.status = "failed"]

\* process_pdf as it would be if it numbered the chunks from one
StampChunksFromOne(pdf, document_id) ==
    [i \in DOMAIN pdf |-> Chunk(document_id, i, pdf[i])]

\* process_pdf: the chunks of the file, stamped with document_id, chunk_index
StampChunks(pdf, document_id) ==
    [i \in DOMAIN pdf |-> Chunk(document_id, i - 1, pdf[i])]

\* vector_store.add_documents(chunks): every chunk is stored under a newly
\* generated id, the n generated before being taken
AddDocuments(idx, chunks, n) ==
    idx \cup {Vector(Uuid(n + i), chunks[i]) : i \in DOMAIN chunks}

ReceiveUpload(filename, pdf) ==
    /\ up.pc \in {"idle", "done"}
    /\ received < MaxRequests
    /\ received' = received + 1
    /\ IF ~ValidFilename(filename)
       THEN /\ up' = [Waiting EXCEPT
                        !.pc = "done", !.filename = filename,
                        !.rows = DOMAIN documents, !.disk = files, !.stored = index,
                        !.response = [NoUploadResponse EXCEPT
                                        !.status = BadRequest,
                                        !.detail = "Only PDF files are allowed"]]
            /\ uuids' = uuids
       ELSE /\ up' = [Waiting EXCEPT
                        !.pc = "create", !.filename = filename, !.pdf = pdf,
                        !.file_path = FilePath(Uuid(uuids + 1), filename),
                        !.rows = DOMAIN documents, !.disk = files, !.stored = index]
            /\ uuids' = uuids + 1
    /\ UNCHANGED <<index, chat_history, now, filter, req, lookup,
                   documents, files, ingests, clients, getter, split>>

\* db.add(db_document); db.commit(); db.refresh(db_document)
CreateRecord ==
    /\ up.pc = "create"
    /\ LET id == NextId(documents) IN
       /\ documents' = documents @@ (id :> Document(up.filename, up.file_path))
       /\ up' = [up EXCEPT !.id = id, !.committed = <<"pending">>, !.pc = "save"]
    /\ UNCHANGED <<index, chat_history, now, uuids, received, filter, req, lookup,
                   files, ingests, clients, getter, split>>

\* except SQLAlchemyError: db.rollback(); raise HTTPException(500, ...)
CreateRecordFails ==
    /\ up.pc = "create"
    /\ up' = [up EXCEPT !.failed_at = "create", !.pc = "done",
                        !.response = [NoUploadResponse EXCEPT
                                        !.status = InternalServerError,
                                        !.detail = "Failed to create document record"]]
    /\ UNCHANGED <<index, chat_history, now, uuids, received, filter, req, lookup,
                   documents, files, ingests, clients, getter, split>>

\* with open(file_path, "wb") as buffer: shutil.copyfileobj(file.file, buffer)
SaveFile ==
    /\ up.pc = "save"
    /\ files' = files \cup {up.file_path}
    /\ up' = [up EXCEPT !.pc = "processing"]
    /\ UNCHANGED <<index, chat_history, now, uuids, received, filter, req, lookup,
                   documents, ingests, clients, getter, split>>

\* except IOError: open() failed and there is no file, or the copy failed
\* and what was written of the file is there
SaveFileFails ==
    /\ up.pc = "save"
    /\ files' \in {files, files \cup {up.file_path}}
    /\ up' = [up EXCEPT !.failed_at = "save", !.pc = "save_failed"]
    /\ UNCHANGED <<index, chat_history, now, uuids, received, filter, req, lookup,
                   documents, ingests, clients, getter, split>>

\* db_document.status = FAILED; db.commit(); raise HTTPException(500, ...),
\* which except HTTPException: raise hands on
MarkSaveFailed ==
    /\ up.pc = "save_failed"
    /\ documents' = [documents EXCEPT ![up.id] = Failed(@)]
    /\ up' = [up EXCEPT !.committed = Append(@, "failed"), !.pc = "done",
                        !.response = [NoUploadResponse EXCEPT
                                        !.status = InternalServerError,
                                        !.detail = "Failed to save file"]]
    /\ UNCHANGED <<index, chat_history, now, uuids, received, filter, req, lookup,
                   files, ingests, clients, getter, split>>

\* db_document.status = DocumentStatus.PROCESSING; db.commit()
MarkProcessing ==
    /\ up.pc = "processing"
    /\ documents' = [documents EXCEPT ![up.id] = Processing(@)]
    /\ up' = [up EXCEPT !.committed = Append(@, "processing"), !.pc = "process"]
    /\ UNCHANGED <<index, chat_history, now, uuids, received, filter, req, lookup,
                   files, ingests, clients, getter, split>>

\* chunks = rag_service.process_pdf(file_path, db_document.id) returns
ProcessPdf ==
    /\ up.pc = "process"
    /\ LET chunks == StampChunks(up.pdf, up.id) IN
       /\ index' = AddDocuments(index, chunks, uuids)
       /\ uuids' = uuids + Len(chunks)
       /\ up' = [up EXCEPT !.chunks = Len(chunks), !.pc = "complete"]
    /\ UNCHANGED <<chat_history, now, received, filter, req, lookup,
                   documents, files, ingests, clients, getter, split>>

\* process_pdf raises: in the loader, in the splitter, or in add_documents
\* after the index took the first k chunks
ProcessPdfRaises ==
    /\ up.pc = "process"
    /\ LET chunks == StampChunks(up.pdf, up.id) IN
       \E k \in 0..Len(chunks) :
          /\ index' = AddDocuments(index, SubSeq(chunks, 1, k), uuids)
          /\ uuids' = uuids + k
    /\ up' = [up EXCEPT !.failed_at = "process", !.pc = "recover"]
    /\ UNCHANGED <<chat_history, now, received, filter, req, lookup,
                   documents, files, ingests, clients, getter, split>>

\* db_document.chunks_count = chunks; status = COMPLETED; db.commit()
MarkCompleted ==
    /\ up.pc = "complete"
    /\ documents' = [documents EXCEPT ![up.id] = Completed(@, up.chunks)]
    /\ up' = [up EXCEPT !.committed = Append(@, "completed"), !.pc = "refresh"]
    /\ UNCHANGED <<index, chat_history, now, uuids, received, filter, req, lookup,
                   files, ingests, clients, getter, split>>

\* db.refresh(db_document); return DocumentUploadResponse(...)
Respond ==
    /\ up.pc = "refresh"
    /\ up' = [up EXCEPT !.pc = "done",
                        !.response = [NoUploadResponse EXCEPT
                                        !.status = Created,
                                        !.document = documents[up.id]]]
    /\ UNCHANGED <<index, chat_history, now, uuids, received, filter, req, lookup,
                   documents, files, ingests, clients, getter, split>>

\* a call to the database raises SQLAlchemyError inside the outer try: the
\* commit of FAILED after the file error, of PROCESSING, of COMPLETED, or
\* the refresh; except Exception takes over
DatabaseFails ==
    /\ up.pc \in {"save_failed", "processing", "complete", "refresh"}
    /\ up' = [up EXCEPT !.failed_at = IF @ = "" THEN up.pc ELSE @,
                        !.pc = "recover"]
    /\ UNCHANGED <<index, chat_history, now, uuids, received, filter, req, lookup,
                   documents, files, ingests, clients, getter, split>>

\* except Exception: db_document.status = FAILED; db.commit()
MarkFailed ==
    /\ up.pc = "recover"
    /\ documents' = [documents EXCEPT ![up.id] = Failed(@)]
    /\ up' = [up EXCEPT !.committed = Append(@, "failed"), !.pc = "cleanup"]
    /\ UNCHANGED <<index, chat_history, now, uuids, received, filter, req, lookup,
                   files, ingests, clients, getter, split>>

\* except SQLAlchemyError: the failure of that commit is logged
MarkFailedFails ==
    /\ up.pc = "recover"
    /\ up' = [up EXCEPT !.status_lost = TRUE, !.pc = "cleanup"]
    /\ UNCHANGED <<index, chat_history, now, uuids, received, filter, req, lookup,
                   documents, files, ingests, clients, getter, split>>

\* the handler as it would be if its error handling fell through to the
\* success response
ProcessingFailedCreated == [NoUploadResponse EXCEPT !.status = Created]

\* raise HTTPException(500, f"Failed to process document: {str(e)}")
ProcessingFailedResponse ==
    [NoUploadResponse EXCEPT !.status = InternalServerError,
                             !.detail = "Failed to process document"]

\* if os.path.exists(file_path): os.remove(file_path); then the response
RemoveFile ==
    /\ up.pc = "cleanup"
    /\ files' = files \ {up.file_path}
    /\ up' = [up EXCEPT !.pc = "done", !.response = ProcessingFailedResponse]
    /\ UNCHANGED <<index, chat_history, now, uuids, received, filter, req, lookup,
                   documents, ingests, clients, getter, split>>

\* except OSError: the failure of os.remove is logged
RemoveFileFails ==
    /\ up.pc = "cleanup"
    /\ up.file_path \in files
    /\ up' = [up EXCEPT !.remove_failed = TRUE, !.pc = "done",
                        !.response = ProcessingFailedResponse]
    /\ UNCHANGED <<index, chat_history, now, uuids, received, filter, req, lookup,
                   documents, files, ingests, clients, getter, split>>

\* the process after start-up, with nothing stored in the index or the tables
InitProcess ==
    /\ index = {}
    /\ chat_history = <<>>
    /\ now = 0
    /\ uuids = 0
    /\ received = 0
    /\ filter = [i \in Requests |-> NoDocument]
    /\ req = [r \in Requests |-> Idle]
    /\ lookup = NoLookup
    /\ Unused

\* uploads handled one at a time
NextUpload ==
    \/ \E filename \in Filenames, pdf \in Pdfs : ReceiveUpload(filename, pdf)
    \/ CreateRecord
    \/ CreateRecordFails
    \/ SaveFile
    \/ SaveFileFails
    \/ MarkSaveFailed
    \/ MarkProcessing
    \/ ProcessPdf
    \/ ProcessPdfRaises
    \/ MarkCompleted
    \/ Respond
    \/ DatabaseFails
    \/ MarkFailed
    \/ MarkFailedFails
    \/ RemoveFile
    \/ RemoveFileFails

SpecUpload == InitProcess /\ [][NextUpload]_vars

(***************************************************************************)
(* Claims about uploads.                                                   *)
(***************************************************************************)
\* C14 as stated: once process_pdf has returned n, the record ends with
\* status COMPLETED and chunks_count n and the request returns 201.
C14_ReturnEndsCompleted ==
    (up.pc = "done" /\ up.chunks # NoChunks) =>
        /\ documents[up.id].status = "completed"
        /\ documents[up.id].chunks_count = up.chunks
        /\ up.response.status = Created

\* C14: when process_pdf is invoked the committed status of the record is
\* PROCESSING, PENDING having been committed before it; and when
\* process_pdf returned n and neither the commit of the result nor the
\* refresh after it failed, the record ends with status COMPLETED and
\* chunks_count n and the request returns 201 with that record. No request
\* returns 201 otherwise.
C14_ProcessingThenCompleted ==
    /\ up.pc = "process" =>
         /\ documents[up.id].status = "processing"
         /\ up.committed = <<"pending", "processing">>
    /\ up.chunks # NoChunks => SubSeq(up.committed, 1, 2) = <<"pending", "processing">>
    /\ (up.pc = "done" /\ up.chunks # NoChunks /\ up.failed_at = "") =>
         /\ up.chunks = Len(up.pdf)
         /\ documents[up.id].status = "completed"
         /\ documents[up.id].chunks_count = up.chunks
         /\ documents[up.id].filename = up.filename
         /\ up.response.status = Created
         /\ up.response.document = documents[up.id]
    /\ up.response.status = Created =>
         (up.chunks # NoChunks /\ up.failed_at = ""
          /\ documents[up.id].status = "completed")

\* the upload of a file of two chunks answered 201
C14_Witness ==
    /\ up.pc = "done"
    /\ up.response.status = Created
    /\ up.chunks = 2
    /\ up.response.document.chunks_count = 2
    /\ Cardinality(index) = 2

\* C15 as stated: whenever process_pdf raises, the request returns 500 with
\* a detail starting 'Failed to process document', the record exists with
\* status FAILED, and the saved file is removed.
C15_RaiseEndsFailed ==
    (up.pc = "done" /\ up.failed_at = "process") =>
        /\ up.response = ProcessingFailedResponse
        /\ up.id \in DOMAIN documents
        /\ documents[up.id].status = "failed"
        /\ up.file_path \notin files

\* C15: whenever process_pdf raises, the request returns 500 with a detail
\* starting 'Failed to process document' and the record still exists, never
\* with status COMPLETED: its status is FAILED unless the commit of FAILED
\* itself failed, in which case it stays PROCESSING; and the saved file is
\* removed unless os.remove itself failed, in which case it stays on disk.
C15_RaiseEndsFailedUnlessLost ==
    (up.pc = "done" /\ up.failed_at = "process") =>
        /\ up.response.status = InternalServerError
        /\ up.response.detail = "Failed to process document"
        /\ up.chunks = NoChunks
        /\ up.id \in DOMAIN documents
        /\ documents[up.id].filename = up.filename
        /\ documents[up.id].status # "completed"
        /\ documents[up.id].status = (IF up.status_lost THEN "processing" ELSE "failed")
        /\ (up.file_path \in files) <=> up.remove_failed

\* process_pdf raised after the index took a chunk; the record is FAILED
\* and the file is gone
C15_Witness ==
    /\ up.pc = "done"
    /\ up.failed_at = "process"
    /\ documents[up.id].status = "failed"
    /\ up.file_path \notin files
    /\ \E c \in index : c.document_id = up.id

\* C16: an upload whose filename is missing or does not end in '.pdf' is
\* rejected with 400 before any side effect: no record is created, no file
\* is written, and process_pdf is never invoked.
C16_InvalidRejectedFirst ==
    LET invalid == \/ up.filename = NoFilename
                   \/ up.filename = ""
                   \/ ~EndsWith(up.filename, ".pdf")
    IN
    /\ (up.pc # "idle" /\ invalid) =>
         /\ up.pc = "done"
         /\ up.response.status = BadRequest
         /\ up.response.detail = "Only PDF files are allowed"
         /\ up.id = 0
         /\ DOMAIN documents = up.rows
         /\ files = up.disk
         /\ index = up.stored
         /\ up.chunks = NoChunks
         /\ up.committed = <<>>
    /\ up.response.status = BadRequest => invalid

\* after a successful upload, an upload named "c.PDF" was rejected
C16_Witness ==
    /\ up.pc = "done"
    /\ up.filename = "c.PDF"
    /\ up.response.status = BadRequest
    /\ up.rows = {1}
    /\ Cardinality(files) = 1
    /\ index # {}

(***************************************************************************)
(* get_pinecone_client, get_embeddings, get_llm: plain functions, which    *)
(* FastAPI runs as dependencies in the threads of its pool; the steps of   *)
(* two calls interleave in every way.                                      *)
(***************************************************************************)
\* a request begins to resolve the dependency
CallGetter(t, c) ==
    /\ getter[t].pc \in {"idle", "returned"}
    /\ getter' = [getter EXCEPT ![t] = [NotCalling EXCEPT !.pc = "test", !.client = c]]
    /\ UNCHANGED <<index, chat_history, now, uuids, received, filter, req, lookup,
                   documents, files, up, ingests, clients, split>>

\* if _x is None:
TestNone(t) ==
    /\ getter[t].pc = "test"
    /\ getter' = [getter EXCEPT ![t].pc =
                    IF clients[getter[t].client].handle = NoClient
                    THEN "construct" ELSE "return"]
    /\ UNCHANGED <<index, chat_history, now, uuids, received, filter, req, lookup,
                   documents, files, up, ingests, clients, split>>

\* Pinecone(...), HuggingFaceEmbeddings(...), ChatGoogleGenerativeAI(...)
Construct(t) ==
    /\ getter[t].pc = "construct"
    /\ LET c == getter[t].client IN
       /\ clients' = [clients EXCEPT ![c].constructed = @ + 1]
       /\ getter' = [getter EXCEPT ![t].made = clients[c].constructed + 1,
                                   ![t].pc = "assign"]
    /\ UNCHANGED <<index, chat_history, now, uuids, received, filter, req, lookup,
                   documents, files, up, ingests, split>>

\* _x = <the client constructed>
Assign(t) ==
    /\ getter[t].pc = "assign"
    /\ clients' = [clients EXCEPT ![getter[t].client].handle = getter[t].made]
    /\ getter' = [getter EXCEPT ![t].pc = "return"]
    /\ UNCHANGED <<index, chat_history, now, uuids, received, filter, req, lookup,
                   documents, files, up, ingests, split>>

\* return _x
ReturnClient(t) ==
    /\ getter[t].pc = "return"
    /\ LET c == getter[t].client IN
       /\ clients' = [clients EXCEPT ![c].given = @ \cup {clients[c].handle}]
       /\ getter' = [getter EXCEPT ![t].result = clients[c].handle,
                                   ![t].pc = "returned"]
    /\ UNCHANGED <<index, chat_history, now, uuids, received, filter, req, lookup,
                   documents, files, up, ingests, split>>

NextGetters ==
    \E t \in Threads :
        \/ \E c \in Clients : CallGetter(t, c)
        \/ TestNone(t)
        \/ Construct(t)
        \/ Assign(t)
        \/ ReturnClient(t)

SpecGetters == InitProcess /\ [][NextGetters]_vars

\* C17: for each of the three shared clients, under every interleaving of
\* concurrent calls of its getter, the client is constructed at most once
\* in the process and every caller receives the same handle.
C17_ConstructedOnce ==
    \A c \in Clients :
        /\ clients[c].constructed <= 1
        /\ Cardinality(clients[c].given) <= 1

(***************************************************************************)
(* RAGService.process_pdf on its own, called with any file and any         *)
(* document_id.                                                            *)
(***************************************************************************)
\* the document ids process_pdf is called with
IngestedDocuments == {1, 2}

\* process_pdf(file_path, document_id) returns len(chunks)
Ingest(pdf, document_id) ==
    /\ Len(ingests) < MaxRequests
    /\ LET chunks == StampChunks(pdf, document_id) IN
       /\ index' = AddDocuments(index, chunks, uuids)
       /\ uuids' = uuids + Len(chunks)
       /\ ingests' = Append(ingests, [pdf |-> pdf, document_id |-> document_id,
                                      chunks |-> chunks,
                                      returned |-> Len(chunks)])
    /\ UNCHANGED <<chat_history, now, received, filter, req, lookup,
                   documents, files, up, clients, getter, split>>

\* process_pdf raises after the index took the first k chunks
IngestRaises(pdf, document_id) ==
    /\ Len(ingests) < MaxRequests
    /\ LET chunks == StampChunks(pdf, document_id) IN
       \E k \in 0..Len(chunks) :
          /\ index' = AddDocuments(index, SubSeq(chunks, 1, k), uuids)
          /\ uuids' = uuids + k
    /\ ingests' = Append(ingests, [pdf |-> pdf, document_id |-> document_id,
                                   chunks |-> StampChunks(pdf, document_id),
                                   returned |-> NoChunks])
    /\ UNCHANGED <<chat_history, now, received, filter, req, lookup,
                   documents, files, up, clients, getter, split>>

NextIngest ==
    \E pdf \in Pdfs, document_id \in IngestedDocuments :
        \/ Ingest(pdf, document_id)
        \/ IngestRaises(pdf, document_id)

SpecIngest == InitProcess /\ [][NextIngest]_vars

\* C18: ingesting the same document again under the same document_id does
\* not double its retrievable chunks, insertion being idempotent by the
\* identity of the chunk: as long as every call for a document_id was given
\* the same file, the index holds at most one chunk of that document_id for
\* each chunk of the file.
C18_ReingestionIdempotent ==
    \A d \in IngestedDocuments, pdf \in Pdfs :
        (\A i \in DOMAIN ingests :
            ingests[i].document_id = d => ingests[i].pdf = pdf) =>
        /\ Cardinality({c \in index : c.document_id = d}) <= Len(pdf)
        /\ \A c1, c2 \in index :
             (c1.document_id = d /\ c2.document_id = d
              /\ c1.chunk_index = c2.chunk_index) => c1 = c2

(***************************************************************************)
(* Deleting a row of documents, as the two models declare it: through the  *)
(* session, where the relationship Document.chat_history cascades, or by a *)
(* DELETE statement, where the foreign key of chat_history acts.           *)
(***************************************************************************)
\* the documents turns may refer to
StoredDocuments == {1, 2}

\* a turn of session "s1" asked with the document filter d
FilteredTurn(i, d) ==
    [StoredTurn(i, "s1", i) EXCEPT !.document_id = d]

\* two completed documents and up to MaxTurns turns, each with or without
\* a document filter
InitDelete ==
    /\ index = {}
    /\ documents = [d \in StoredDocuments |->
                      Completed(Document("a.pdf", FilePath(Uuid(d), "a.pdf")), 1)]
    /\ chat_history \in
         UNION {{[i \in 1..n |-> FilteredTurn(i, ds[i])] :
                   ds \in [1..n -> StoredDocuments \cup {NoDocument}]} :
                n \in 0..MaxTurns}
    /\ now = Len(chat_history)
    /\ uuids = Cardinality(StoredDocuments)
    /\ received = 0
    /\ filter = [i \in Requests |-> NoDocument]
    /\ req = [r \in Requests |-> Idle]
    /\ lookup = NoLookup
    /\ files = {documents[d].file_path : d \in StoredDocuments}
    /\ up = Waiting
    /\ ingests = <<>>
    /\ clients = [c \in Clients |-> NotConstructed]
    /\ getter = [t \in Threads |-> NotCalling]
    /\ split = NoSplit

\* db.delete(document); db.commit(): cascade="all, delete-orphan" makes the
\* session delete the rows of chat_history that belong to the document
SessionDelete(d) ==
    /\ d \in DOMAIN documents
    /\ documents' = [e \in DOMAIN documents \ {d} |-> documents[e]]
    /\ LET Kept(turn) == turn.document_id # d IN
       chat_history' = SelectSeq(chat_history, Kept)
    /\ UNCHANGED <<index, now, uuids, received, filter, req, lookup,
                   files, up, ingests, clients, getter, split>>

\* DELETE FROM documents WHERE id = d: ondelete="SET NULL" makes the
\* database clear document_id in the rows of chat_history that refer to it
StatementDelete(d) ==
    /\ d \in DOMAIN documents
    /\ documents' = [e \in DOMAIN documents \ {d} |-> documents[e]]
    /\ chat_history' = [i \in DOMAIN chat_history |->
                          IF chat_history[i].document_id = d
                          THEN [chat_history[i] EXCEPT !.document_id = NoDocument]
                          ELSE chat_history[i]]
    /\ UNCHANGED <<index, now, uuids, received, filter, req, lookup,
                   files, up, ingests, clients, getter, split>>

NextDelete ==
    \E d \in StoredDocuments :
        \/ SessionDelete(d)
        \/ StatementDelete(d)

SpecDelete == InitDelete /\ [][NextDelete]_vars

\* C19: deleting a document record never deletes a turn: every turn there
\* was before the deletion is there after it with question, answer and
\* session_id unchanged, and the turns that referred to the deleted
\* document have their document filter cleared.
C19_DeleteKeepsTurns ==
    [][(DOMAIN documents' # DOMAIN documents) =>
         \A i \in DOMAIN chat_history :
            \E j \in DOMAIN chat_history' :
               /\ chat_history'[j].id = chat_history[i].id
               /\ chat_history'[j].question = chat_history[i].question
               /\ chat_history'[j].answer = chat_history[i].answer
               /\ chat_history'[j].session_id = chat_history[i].session_id
               /\ chat_history'[j].document_id =
                    (IF chat_history[i].document_id \in DOMAIN documents'
                     THEN chat_history[i].document_id ELSE NoDocument)]_vars

\* C23: an ingestion process_pdf(file, D) that produces N chunks stamps
\* every chunk with document_id D and with the chunk_index values 0..N-1 in
\* the order the chunks were emitted, so unique within the document and
\* strictly increasing; it stores exactly these chunks and returns N.
C23_ChunksStamped ==
    \A n \in DOMAIN ingests :
        LET call == ingests[n]
            N == Len(call.pdf)
        IN
        /\ Len(call.chunks) = N
        /\ \A i \in 1..N :
             /\ call.chunks[i].document_id = call.document_id
             /\ call.chunks[i].chunk_index = i - 1
             /\ call.chunks[i].vec = call.pdf[i]
        /\ \A i, j \in 1..N :
             i < j => call.chunks[i].chunk_index < call.chunks[j].chunk_index
        /\ call.returned # NoChunks =>
             /\ call.returned = N
             /\ \A i \in 1..N :
                  \E c \in index :
                     /\ c.document_id = call.document_id
                     /\ c.chunk_index = i - 1
                     /\ c.vec = call.pdf[i]

\* process_pdf returned 2 for a file of two chunks and document 2
C23_Witness ==
    \E n \in DOMAIN ingests :
        /\ ingests[n].returned = 2
        /\ ingests[n].document_id = 2
        /\ Cardinality({c \in index : c.document_id = 2}) = 2

\* C24: in the fixed pipeline, when the search returns no chunk (the index
\* is empty or no chunk matches the filter) the answer generation is still
\* invoked exactly once, and a query that returns gives an outcome with
\* empty sources: the empty result is never what makes query() raise, a
\* query that failed at retrieval has no search result at all.
C24_EmptyRetrievalStillAnswers ==
    \A r \in Requests :
        LET q == req[r] IN
        (q.endpoint = "chat" /\ q.calls # <<>> /\ q.calls[1].docs = <<>>) =>
            /\ q.failed_at # "retrieve"
            /\ q.pc \in {"synthesize", "returned", "done"}
            /\ Returned(q) =>
                 /\ Cardinality({i \in DOMAIN q.stages : q.stages[i] = "synthesis"}) = 1
                 /\ q.sources = <<>>
                 /\ q.answer \in Answers
            /\ (q.pc = "done" /\ q.response.status = Ok) =>
                 (q.response.sources = <<>> /\ q.response.answer = q.answer)

\* a query filtered to document 1 on the empty index returned an answer
\* and no sources
C24_Witness ==
    /\ index = {}
    /\ req[1].endpoint = "chat"
    /\ req[1].document_id = 1
    /\ req[1].pc = "done"
    /\ req[1].response.status = Ok
    /\ req[1].response.answer = "a1"
    /\ req[1].response.sources = <<>>

\* C25: the upload performs its steps in the documented order, the file
\* being saved to disk under its unique name before the record with status
\* PENDING is created, so that no record exists for a file that has not
\* been written: while the handler has not reached its error handling, the
\* file of the record it created is on disk.
C25_FileSavedBeforeRecord ==
    (up.id \in DOMAIN documents /\ up.pc \notin {"recover", "cleanup", "done"}) =>
        up.file_path \in files

NextSameSession ==
    \E r \in Requests :
        \/ \E e \in Endpoints, q \in Questions : Receive(r, e, q, "s1", NoDocument)
        \/ LoadHistory(r)
        \/ Reformulate(r)
        \/ Retrieve(r)
        \/ Synthesize(r)
        \/ SetFilter(r)
        \/ CallTool(r)
        \/ RetrieveDocuments(r)
        \/ Answer(r)
        \/ QueryFails(r)
        \/ SaveHistory(r)
        \/ SaveHistoryFails(r)

SpecSameSession == Init /\ [][NextSameSession]_vars

\* C29 as stated: when two chat requests on one session have both
\* succeeded, both turns are persisted.
C29_BothSucceedBothPersisted ==
    \A r1, r2 \in Requests :
        (/\ r1 # r2
         /\ req[r1].pc = "done" /\ req[r1].response.status = Ok
         /\ req[r2].pc = "done" /\ req[r2].response.status = Ok
         /\ req[r1].session_id = req[r2].session_id) =>
            /\ req[r1].saved # 0
            /\ req[r2].saved # 0

\* C29: under every interleaving of two chat requests on one session that
\* both succeed and whose saves both went through, both turns are
\* persisted, each exactly once and neither overwritten by the other: they
\* are two rows, each carrying its own request's question and answer, and
\* the table grows by one row for every save. The race shows only in their
\* order and in the history each request loaded, which holds nothing but
\* rows stored before it was loaded.
C29_ConcurrentTurnsBothKept ==
    /\ \A i \in DOMAIN chat_history : chat_history[i].id = i
    /\ Len(chat_history) <= received
    /\ \A r \in Requests :
         LET q == req[r] IN
         /\ \A i \in Range(q.records) :
              i \in DOMAIN chat_history /\ chat_history[i].session_id = q.session_id
         /\ (q.pc = "done" /\ q.response.status = Ok /\ q.failed_at # "save") =>
              /\ q.saved \in DOMAIN chat_history
              /\ q.saved > q.rows
              /\ q.saved \notin Range(q.records)
              /\ chat_history[q.saved].session_id = q.session_id
              /\ chat_history[q.saved].question = q.question
              /\ chat_history[q.saved].answer = q.response.answer
              /\ chat_history[q.saved].sources_count = Len(q.response.sources)
    /\ \A r1, r2 \in Requests :
         (/\ r1 # r2
          /\ req[r1].pc = "done" /\ req[r1].response.status = Ok
          /\ req[r2].pc = "done" /\ req[r2].response.status = Ok
          /\ req[r1].failed_at # "save" /\ req[r2].failed_at # "save") =>
             /\ req[r1].saved # req[r2].saved
             /\ Len(chat_history) >= 2

\* both requests came in before either stored its turn; the second loaded
\* an empty history, and both turns are in the table
C29_Witness ==
    /\ req[1].pc = "done" /\ req[2].pc = "done"
    /\ req[1].rows = 0 /\ req[2].rows = 0
    /\ req[1].saved = 1 /\ req[2].saved = 2
    /\ req[2].records = <<>>
    /\ req[1].response.answer = "a1" /\ req[2].response.answer = ""
    /\ chat_history[1].answer = "a1" /\ chat_history[2].answer = ""

(***************************************************************************)
(* A model-directed query while documents are being ingested into the      *)
(* index it searches.                                                      *)
(***************************************************************************)
NextAgentIngest ==
    \/ \E r \in Serial :
          \/ \E q \in Questions, d \in GivenDocuments :
                Receive(r, "agent", q, NoSession, d)
          \/ SetFilter(r)
          \/ LoadHistory(r)
          \/ CallTool(r)
          \/ RetrieveDocuments(r)
          \/ Answer(r)
          \/ QueryFails(r)
          \/ SaveHistory(r)
          \/ SaveHistoryFails(r)
    \/ /\ ingests = <<>>
       /\ Ingest(<<1>>, 1)

SpecAgentIngest == Init /\ [][NextAgentIngest]_vars

\* C22: when a model-directed query that invoked retrieval at least once
\* has returned, its sources are the chunks of the first invocation, in
\* order, and never those of a later one; they are empty when the first
\* invocation returned no chunk.
C22_SourcesOfFirstInvocation ==
    \A r \in Requests :
        LET q == req[r] IN
        (q.endpoint = "agent" /\ Returned(q) /\ q.calls # <<>>) =>
            q.sources = Sources(q.calls[1].docs)

(***************************************************************************)
(* Model-directed queries on sessions with a long history. A handler runs  *)
(* to its end once it has started: every call it makes returns or raises.  *)
(* The graph behind agent.invoke counts its steps and raises when a run    *)
(* exceeds its limit, which is QueryFails at "decide".                     *)
(***************************************************************************)
\* the turns stored before the requests: every fifth row is of another
\* session, created_at grows with the row
AgentTables ==
    {[i \in 1..n |-> StoredTurn(i, IF i % 5 = 0 THEN "u1" ELSE "s1", i)] :
        n \in {0, 1, 3, 12, 13, 14}}

InitAgent ==
    /\ index \in IndexChoices
    /\ chat_history \in AgentTables
    /\ now = Len(chat_history)
    /\ uuids = 0
    /\ received = 0
    /\ filter = [i \in Requests |-> NoDocument]
    /\ req = [r \in Requests |-> Idle]
    /\ lookup = NoLookup
    /\ Unused

\* a step of the handler of request r
StepAgent(r) ==
    \/ SetFilter(r)
    \/ LoadHistory(r)
    \/ CallTool(r)
    \/ RetrieveDocuments(r)
    \/ Answer(r)
    \/ QueryFails(r)
    \/ SaveHistory(r)
    \/ SaveHistoryFails(r)

NextAgent ==
    \E r \in Serial :
        \/ /\ received = 0
           /\ \E q \in Questions, s \in GivenSessions, d \in GivenDocuments :
                 Receive(r, "agent", q, s, d)
        \/ StepAgent(r)

SpecAgent ==
    InitAgent /\ [][NextAgent]_vars /\ \A r \in Serial : WF_vars(StepAgent(r))

ChunkSize == 1000
ChunkOverlap == 200

\* the pages of a file
MaxPages == 2
PageLengths == {0, 1, 2, 200, 201, 800, 999, 1000, 1001, 1800, 1801}
PdfPages == UNION {[1..n -> PageLengths] : n \in 0..MaxPages}

\* split_text on a text of n characters without separators: chunks of
\* chunk_size characters, each starting chunk_overlap characters before the
\* end of the one before; an empty text gives no chunk
SplitText(n) ==
    LET step == ChunkSize - ChunkOverlap
        count == IF n = 0 THEN 0
                 ELSE IF n <= ChunkSize THEN 1
                 ELSE (n - ChunkSize + step - 1) \div step + 1
    IN [k \in 1..count |->
          [first |-> (k - 1) * step + 1,
           last |-> Min((k - 1) * step + ChunkSize, n)]]

RECURSIVE SplitDocuments(_, _)
\* split_documents: the chunks of page p and of the pages after it, every
\* page split on its own
SplitDocuments(pages, p) ==
    IF p > Len(pages) THEN <<>>
    ELSE [k \in DOMAIN SplitText(pages[p]) |->
            [page |-> p, first |-> SplitText(pages[p])[k].first,
             last |-> SplitText(pages[p])[k].last]]
         \o SplitDocuments(pages, p + 1)

\* documents = loader.load(); chunks = self.text_splitter.split_documents(documents)
SplitPdf(pages) ==
    /\ split' = [pages |-> pages, chunks |-> SplitDocuments(pages, 1)]
    /\ UNCHANGED <<index, chat_history, now, uuids, received, filter, req, lookup,
                   documents, files, up, ingests, clients, getter>>

NextSplit == \E pages \in PdfPages : SplitPdf(pages)

SpecSplit == InitProcess /\ [][NextSplit]_vars

RECURSIVE Offset(_, _)
\* the number of characters of the file before page p
Offset(pages, p) == IF p <= 1 THEN 0 ELSE Offset(pages, p - 1) + pages[p - 1]

\* C21: the chunks of a file cover its text without gaps and in order, so
\* that joining them without their overlaps gives the text back; no chunk
\* is longer than 1000 characters; and any two neighbouring characters of
\* the text, the shortest phrase that can span a chunk boundary, are
\* together in at least one chunk.
C21_ChunksCoverText ==
    LET pages == split.pages
        chunks == split.chunks
        total == Offset(pages, Len(pages) + 1)
        From(c) == Offset(pages, c.page) + c.first
        To(c) == Offset(pages, c.page) + c.last
    IN /\ \A i \in DOMAIN chunks : To(chunks[i]) - From(chunks[i]) + 1 <= ChunkSize
       /\ total > 0 => /\ chunks # <<>>
                       /\ From(chunks[1]) = 1
                       /\ To(chunks[Len(chunks)]) = total
       /\ \A i \in DOMAIN chunks :
            i < Len(chunks) => /\ From(chunks[i + 1]) <= To(chunks[i]) + 1
                               /\ From(chunks[i + 1]) > From(chunks[i])
                               /\ To(chunks[i + 1]) > To(chunks[i])
       /\ \A g \in 1..(total - 1) :
            \E i \in DOMAIN chunks : From(chunks[i]) <= g /\ g + 1 <= To(chunks[i])

====
